---- MODULE Spec2Model ----
(***************************************************************************)
(* Model of the induction motor estimator library: the floating point      *)
(* P / PI / PD / PID controllers (fp_pid.c) and the machine parameters,    *)
(* stator back-EMF observer, rotor flux observer and sensorless speed      *)
(* observer (im_estimators.c).                                             *)
(*                                                                         *)
(* A C float is modelled as an extended rational [n, d]: d > 0 is the      *)
(* number n/d in lowest terms, 1/0 and -1/0 are +infinity and -infinity,   *)
(* 0/0 is not-a-number.  Arithmetic is exact (rounding is not modelled);   *)
(* the IEEE rules for infinities and NaN are kept.  The flux build-up run  *)
(* (SpecFlux) is computed in IEEE binary32 with rounding instead.          *)
(***************************************************************************)
EXTENDS Integers, Sequences, FiniteSets

VARIABLES ctl, ins, prm, rotObs, statObs, spd, calls, inits, last, pre

vars == <<ctl, ins, prm, rotObs, statObs, spd, calls, inits, last, pre>>

(***************************************************************************)
(* float arithmetic                                                        *)
(***************************************************************************)
Abs(i) == IF i < 0 THEN -i ELSE i

Sgn(i) == IF i < 0 THEN -1 ELSE IF i > 0 THEN 1 ELSE 0

RECURSIVE GCD(_, _)
GCD(a, b) == IF b = 0 THEN a ELSE GCD(b, a % b)

Q(n, d) ==
    IF d = 0 THEN [n |-> Sgn(n), d |-> 0]
    ELSE LET g == GCD(Abs(n), Abs(d))
             s == Sgn(d)
         IN  [n |-> s * (n \div g), d |-> s * (d \div g)]

F(i) == [n |-> i, d |-> 1]

Zero == F(0)

Half == Q(1, 2)

PInf == [n |-> 1, d |-> 0]

NInf == [n |-> -1, d |-> 0]

NaN == [n |-> 0, d |-> 0]

IsNaN(a) == a.d = 0 /\ a.n = 0

IsFinite(a) == a.d # 0

fNeg(a) == [n |-> -a.n, d |-> a.d]

\* over the least common denominator, which keeps the integers small
fAdd(a, b) ==
    IF a.d = 0 /\ b.d = 0 THEN (IF a.n = b.n THEN a ELSE NaN)
    ELSE IF a.d = 0 THEN a
    ELSE IF b.d = 0 THEN b
    ELSE LET g == GCD(a.d, b.d)
         IN  Q(a.n * (b.d \div g) + b.n * (a.d \div g), (a.d \div g) * b.d)

fSub(a, b) == fAdd(a, fNeg(b))

\* cross-reduced before multiplying
fMul(a, b) ==
    IF a.d = 0 \/ b.d = 0 THEN Q(a.n * b.n, 0)
    ELSE LET g1 == GCD(Abs(a.n), b.d)
             g2 == GCD(Abs(b.n), a.d)
         IN  Q((a.n \div g1) * (b.n \div g2), (a.d \div g2) * (b.d \div g1))

fInv(b) ==
    IF b.d = 0 THEN (IF b.n = 0 THEN NaN ELSE Zero)
    ELSE IF b.n = 0 THEN PInf
    ELSE Q(b.d, b.n)

fDiv(a, b) == fMul(a, fInv(b))

fGt(a, b) ==
    /\ ~IsNaN(a)
    /\ ~IsNaN(b)
    /\ IF a.d = 0 \/ b.d = 0
       THEN (IF a.d = 0 /\ b.d = 0 THEN a.n > b.n
             ELSE IF a.d = 0 THEN a.n > 0 ELSE b.n < 0)
       ELSE LET g == GCD(a.d, b.d)
            IN  a.n * (b.d \div g) > b.n * (a.d \div g)

fLt(a, b) == fGt(b, a)

fLe(a, b) == ~IsNaN(a) /\ ~IsNaN(b) /\ ~fGt(a, b)

(***************************************************************************)
(* fp_pid.c: the output limiter shared by the four calc functions          *)
(***************************************************************************)
LimitLowFirst(fPreOut, fUpOutLim, fLowOutLim) ==
    LET lo == IF fLt(fPreOut, fLowOutLim) THEN fLowOutLim ELSE fPreOut
    IN  IF fGt(lo, fUpOutLim) THEN fUpOutLim ELSE lo

Limit(fPreOut, fUpOutLim, fLowOutLim) ==
    LET up == IF fGt(fPreOut, fUpOutLim) THEN fUpOutLim ELSE fPreOut
    IN  IF fLt(up, fLowOutLim) THEN fLowOutLim ELSE up

(***************************************************************************)
(* fp_pid.h: the default initialisers                                      *)
(***************************************************************************)
P_DEFAULTS ==
    [fIn |-> Zero, fOut |-> Zero, fKp |-> Zero, fUpOutLim |-> Zero,
     fLowOutLim |-> Zero, m_calc |-> "tP_calc", m_rst |-> "tP_rst"]

PI_DEFAULTS ==
    [fDtSec |-> F(1), fIn |-> Zero, fOut |-> Zero, fKp |-> Zero, fKi |-> Zero,
     fUpOutLim |-> Zero, fLowOutLim |-> Zero, fPout |-> Zero, fIout |-> Zero,
     fIprevIn |-> Zero, fIprevOut |-> Zero,
     m_calc |-> "tPI_calc", m_rst |-> "tPI_rst"]

PD_DEFAULTS ==
    [fDtSec |-> F(1), fIn |-> Zero, fOut |-> Zero, fKp |-> Zero, fKd |-> Zero,
     fUpOutLim |-> Zero, fLowOutLim |-> Zero, fPout |-> Zero, fDout |-> Zero,
     fDprevIn |-> Zero, fDprevOut |-> Zero,
     m_calc |-> "tPD_calc", m_rst |-> "tPD_rst"]

PID_DEFAULTS ==
    [fDtSec |-> F(1), fIn |-> Zero, fOut |-> Zero, fKp |-> Zero, fKi |-> Zero,
     fKd |-> Zero, fUpOutLim |-> Zero, fLowOutLim |-> Zero, fPout |-> Zero,
     fIout |-> Zero, fDout |-> Zero, fIprevIn |-> Zero, fIprevOut |-> Zero,
     fDprevIn |-> Zero, fDprevOut |-> Zero,
     m_calc |-> "tPID_calc", m_rst |-> "tPID_rst"]

(***************************************************************************)
(* fp_pid.c: calc and reset of the four controllers                        *)
(***************************************************************************)
tP_calc_noLowerLimit(ptP) ==
    LET fPreOut == fMul(ptP.fIn, ptP.fKp)
    IN  [ptP EXCEPT !.fOut = IF fGt(fPreOut, ptP.fUpOutLim)
                             THEN ptP.fUpOutLim ELSE fPreOut]

tP_calc(ptP) ==
    LET fPreOut == fMul(ptP.fIn, ptP.fKp)
    IN  [ptP EXCEPT !.fOut = Limit(fPreOut, ptP.fUpOutLim, ptP.fLowOutLim)]

tP_rst(ptP) == [ptP EXCEPT !.fIn = Zero, !.fOut = Zero]

\* a PI controller whose integrator is limited with the output (anti-windup)
tPI_calc_antiWindup(ptPI) ==
    LET fPout == fMul(ptPI.fIn, ptPI.fKp)
        fIout == Limit(fAdd(ptPI.fIprevOut,
                            fMul(fMul(Half, ptPI.fDtSec),
                                 fAdd(fMul(fPout, ptPI.fKi), ptPI.fIprevIn))),
                       ptPI.fUpOutLim, ptPI.fLowOutLim)
        fPreOut == fAdd(fPout, fIout)
    IN  [ptPI EXCEPT !.fPout = fPout,
                     !.fIout = fIout,
                     !.fIprevIn = fPout,
                     !.fIprevOut = fIout,
                     !.fOut = Limit(fPreOut, ptPI.fUpOutLim, ptPI.fLowOutLim)]

tPI_calc(ptPI) ==
    LET fPout == fMul(ptPI.fIn, ptPI.fKp)
        fIout == fAdd(ptPI.fIprevOut,
                      fMul(fMul(Half, ptPI.fDtSec),
                           fAdd(fMul(fPout, ptPI.fKi), ptPI.fIprevIn)))
        fPreOut == fAdd(fPout, fIout)
    IN  [ptPI EXCEPT !.fPout = fPout,
                     !.fIout = fIout,
                     !.fIprevIn = fPout,
                     !.fIprevOut = fIout,
                     !.fOut = Limit(fPreOut, ptPI.fUpOutLim, ptPI.fLowOutLim)]

tPI_rst(ptPI) ==
    [ptPI EXCEPT !.fIn = Zero, !.fIout = Zero, !.fIprevIn = Zero,
                 !.fIprevOut = Zero, !.fOut = Zero, !.fPout = Zero]

tPD_calc(ptPD) ==
    LET fPout == fMul(ptPD.fIn, ptPD.fKp)
        fDout == fDiv(fSub(fMul(fPout, ptPD.fKd), ptPD.fDprevIn), ptPD.fDtSec)
        fPreOut == fAdd(fPout, fDout)
    IN  [ptPD EXCEPT !.fPout = fPout,
                     !.fDout = fDout,
                     !.fDprevIn = fPout,
                     !.fDprevOut = fDout,
                     !.fOut = Limit(fPreOut, ptPD.fUpOutLim, ptPD.fLowOutLim)]

tPD_rst(ptPD) ==
    [ptPD EXCEPT !.fDout = Zero, !.fDprevIn = Zero, !.fDprevOut = Zero,
                 !.fIn = Zero, !.fOut = Zero, !.fPout = Zero]

tPID_calc(ptPID) ==
    LET fPout == fMul(ptPID.fIn, ptPID.fKp)
        fIout == fAdd(ptPID.fIprevOut,
                      fMul(fMul(Half, ptPID.fDtSec),
                           fAdd(fMul(fPout, ptPID.fKi), ptPID.fIprevIn)))
        fDout == fDiv(fSub(fMul(fPout, ptPID.fKd), ptPID.fDprevIn), ptPID.fDtSec)
        fPreOut == fAdd(fAdd(fPout, fIout), fDout)
    IN  [ptPID EXCEPT !.fPout = fPout,
                      !.fIout = fIout,
                      !.fIprevIn = fPout,
                      !.fIprevOut = fIout,
                      !.fDout = fDout,
                      !.fDprevIn = fPout,
                      !.fDprevOut = fDout,
                      !.fOut = Limit(fPreOut, ptPID.fUpOutLim, ptPID.fLowOutLim)]

tPID_rst_keepsIntegral(ptPID) ==
    [ptPID EXCEPT !.fDout = Zero, !.fDprevIn = Zero, !.fDprevOut = Zero,
                  !.fIn = Zero, !.fIout = Zero, !.fIprevIn = Zero,
                  !.fOut = Zero, !.fPout = Zero]

tPID_rst(ptPID) ==
    [ptPID EXCEPT !.fDout = Zero, !.fDprevIn = Zero, !.fDprevOut = Zero,
                  !.fIn = Zero, !.fIout = Zero, !.fIprevIn = Zero,
                  !.fIprevOut = Zero, !.fOut = Zero, !.fPout = Zero]

\* the call through the record's function pointer m_calc / m_rst
m_calc(c) ==
    CASE c.m_calc = "tP_calc" -> tP_calc(c)
      [] c.m_calc = "tPI_calc" -> tPI_calc(c)
      [] c.m_calc = "tPD_calc" -> tPD_calc(c)
      [] c.m_calc = "tPID_calc" -> tPID_calc(c)

m_rst(c) ==
    CASE c.m_rst = "tP_rst" -> tP_rst(c)
      [] c.m_rst = "tPI_rst" -> tPI_rst(c)
      [] c.m_rst = "tPD_rst" -> tPD_rst(c)
      [] c.m_rst = "tPID_rst" -> tPID_rst(c)

(***************************************************************************)
(* math.h as used by im_estimators.c.  The results are irrational in       *)
(* general and are kept symbolically: hypotf by the square of its value,   *)
(* atan2f by the primitive integer vector <<y, x>> of its direction.       *)
(***************************************************************************)
hypotf(y, x) ==
    IF (y.d = 0 /\ y.n # 0) \/ (x.d = 0 /\ x.n # 0) THEN [sqrtOf |-> PInf]
    ELSE IF IsNaN(y) \/ IsNaN(x) THEN [sqrtOf |-> NaN]
    ELSE [sqrtOf |-> fAdd(fMul(y, y), fMul(x, x))]

atan2f(y, x) ==
    IF IsNaN(y) \/ IsNaN(x) THEN [dir |-> "NaN"]
    ELSE IF y.d = 0 /\ x.d = 0 THEN [dir |-> <<y.n, x.n>>]
    ELSE LET a == y.n * x.d
             b == x.n * y.d
             g == GCD(Abs(a), Abs(b))
         IN  IF g = 0 THEN [dir |-> <<0, 1>>]
             ELSE [dir |-> <<a \div g, b \div g>>]

(***************************************************************************)
(* im_estimators.h: the default initialisers                               *)
(***************************************************************************)
IM_PARAMS_DEFAULTS ==
    [fDt |-> F(1), fNpP |-> Zero, fRs |-> Zero, fRr |-> Zero, fLs |-> Zero,
     fLr |-> Zero, fLm |-> Zero, f1divTr |-> Zero, f1divKr |-> Zero,
     fSigLs |-> Zero, m_init |-> "tIMparams_init"]

IM_STAT_OBS_DEFAULTS ==
    [fIsAl |-> Zero, fIsBe |-> Zero, fUsAl |-> Zero, fUsBe |-> Zero,
     fPrevIsAl |-> Zero, fPrevIsBe |-> Zero, fEsAl |-> Zero, fEsBe |-> Zero,
     m_calc |-> "tIMstatObs_calc"]

IM_ROT_OBS_DEFAULTS ==
    [fIsAl |-> Zero, fIsBe |-> Zero, fWrE |-> Zero, fPrevErAl |-> Zero,
     fPrevErBe |-> Zero, fPrevFrAl |-> Zero, fPrevFrBe |-> Zero,
     fFrAl |-> Zero, fFrBe |-> Zero, fErAl |-> Zero, fErBe |-> Zero,
     m_calc |-> "tIMrotObs_calc"]

IM_SPEED_OBS_DEFAULTS ==
    [fUsAl |-> Zero, fUsBe |-> Zero, fIsAl |-> Zero, fIsBe |-> Zero,
     sIMstatObs |-> IM_STAT_OBS_DEFAULTS, sIMrotObs |-> IM_ROT_OBS_DEFAULTS,
     sPI |-> PI_DEFAULTS, fWrE |-> Zero, fFrAng |-> [dir |-> <<0, 1>>],
     fFrMagn |-> [sqrtOf |-> Zero],
     m_calc |-> "tIMspeedObs_calc"]

(***************************************************************************)
(* im_estimators.c                                                         *)
(***************************************************************************)
tIMparams_init_guarded(ptIMparams) ==
    LET safeDiv(a, b) == IF b = Zero THEN Zero ELSE fDiv(a, b)
    IN  [ptIMparams EXCEPT
            !.f1divTr = safeDiv(ptIMparams.fRr, ptIMparams.fLr),
            !.f1divKr = safeDiv(ptIMparams.fLr, ptIMparams.fLm),
            !.fSigLs = fMul(fSub(F(1),
                                 safeDiv(fMul(ptIMparams.fLm, ptIMparams.fLm),
                                         fMul(ptIMparams.fLs, ptIMparams.fLr))),
                            ptIMparams.fLs)]

tIMparams_init_overwritesLs(ptIMparams) ==
    LET fSigLs == fMul(fSub(F(1), fDiv(fMul(ptIMparams.fLm, ptIMparams.fLm),
                                       fMul(ptIMparams.fLs, ptIMparams.fLr))),
                       ptIMparams.fLs)
    IN  [ptIMparams EXCEPT
            !.f1divTr = fDiv(ptIMparams.fRr, ptIMparams.fLr),
            !.f1divKr = fDiv(ptIMparams.fLr, ptIMparams.fLm),
            !.fSigLs = fSigLs,
            !.fLs = fSigLs]

tIMparams_init(ptIMparams) ==
    [ptIMparams EXCEPT
        !.f1divTr = fDiv(ptIMparams.fRr, ptIMparams.fLr),
        !.f1divKr = fDiv(ptIMparams.fLr, ptIMparams.fLm),
        !.fSigLs = fMul(fSub(F(1), fDiv(fMul(ptIMparams.fLm, ptIMparams.fLm),
                                        fMul(ptIMparams.fLs, ptIMparams.fLr))),
                        ptIMparams.fLs)]

\* the same observer without the update of the current history
tIMstatObs_calc_staleHistory(ptIMstatObs, ptIMparams) ==
    LET fDiffIsAl == fDiv(fSub(ptIMstatObs.fIsAl, ptIMstatObs.fPrevIsAl),
                          ptIMparams.fDt)
        fDiffIsBe == fDiv(fSub(ptIMstatObs.fIsBe, ptIMstatObs.fPrevIsBe),
                          ptIMparams.fDt)
    IN  [ptIMstatObs EXCEPT
            !.fEsAl = fMul(fSub(fSub(ptIMstatObs.fUsAl,
                                     fMul(ptIMparams.fRs, ptIMstatObs.fIsAl)),
                                fMul(ptIMparams.fSigLs, fDiffIsAl)),
                           ptIMparams.f1divKr),
            !.fEsBe = fMul(fSub(fSub(ptIMstatObs.fUsBe,
                                     fMul(ptIMparams.fRs, ptIMstatObs.fIsBe)),
                                fMul(ptIMparams.fSigLs, fDiffIsBe)),
                           ptIMparams.f1divKr)]

tIMstatObs_calc(ptIMstatObs, ptIMparams) ==
    LET fDiffIsAl == fDiv(fSub(ptIMstatObs.fIsAl, ptIMstatObs.fPrevIsAl),
                          ptIMparams.fDt)
        fDiffIsBe == fDiv(fSub(ptIMstatObs.fIsBe, ptIMstatObs.fPrevIsBe),
                          ptIMparams.fDt)
    IN  [ptIMstatObs EXCEPT
            !.fPrevIsAl = ptIMstatObs.fIsAl,
            !.fPrevIsBe = ptIMstatObs.fIsBe,
            !.fEsAl = fMul(fSub(fSub(ptIMstatObs.fUsAl,
                                     fMul(ptIMparams.fRs, ptIMstatObs.fIsAl)),
                                fMul(ptIMparams.fSigLs, fDiffIsAl)),
                           ptIMparams.f1divKr),
            !.fEsBe = fMul(fSub(fSub(ptIMstatObs.fUsBe,
                                     fMul(ptIMparams.fRs, ptIMstatObs.fIsBe)),
                                fMul(ptIMparams.fSigLs, fDiffIsBe)),
                           ptIMparams.f1divKr)]

\* the same two blocks with the beta block evaluated first
tIMrotObs_calc_betaFirst(ptIMrotObs, ptIMparams) ==
    LET fErBe == fAdd(fMul(fSub(fMul(ptIMrotObs.fIsBe, ptIMparams.fLm),
                                ptIMrotObs.fFrBe),
                           ptIMparams.f1divTr),
                      fMul(ptIMrotObs.fWrE, ptIMrotObs.fFrAl))
        fFrBe == fAdd(ptIMrotObs.fPrevFrBe,
                      fMul(fMul(Half, ptIMparams.fDt),
                           fAdd(fErBe, ptIMrotObs.fPrevErBe)))
        fErAl == fSub(fMul(fSub(fMul(ptIMrotObs.fIsAl, ptIMparams.fLm),
                                ptIMrotObs.fFrAl),
                           ptIMparams.f1divTr),
                      fMul(ptIMrotObs.fWrE, fFrBe))
        fFrAl == fAdd(ptIMrotObs.fPrevFrAl,
                      fMul(fMul(Half, ptIMparams.fDt),
                           fAdd(fErAl, ptIMrotObs.fPrevErAl)))
    IN  [ptIMrotObs EXCEPT
            !.fErAl = fErAl, !.fFrAl = fFrAl,
            !.fPrevErAl = fErAl, !.fPrevFrAl = fFrAl,
            !.fErBe = fErBe, !.fFrBe = fFrBe,
            !.fPrevErBe = fErBe, !.fPrevFrBe = fFrBe]

\* the same observer without the update of the back-EMF history
tIMrotObs_calc_staleErHistory(ptIMrotObs, ptIMparams) ==
    LET fErAl == fSub(fMul(fSub(fMul(ptIMrotObs.fIsAl, ptIMparams.fLm),
                                ptIMrotObs.fFrAl),
                           ptIMparams.f1divTr),
                      fMul(ptIMrotObs.fWrE, ptIMrotObs.fFrBe))
        fFrAl == fAdd(ptIMrotObs.fPrevFrAl,
                      fMul(fMul(Half, ptIMparams.fDt),
                           fAdd(fErAl, ptIMrotObs.fPrevErAl)))
        fErBe == fAdd(fMul(fSub(fMul(ptIMrotObs.fIsBe, ptIMparams.fLm),
                                ptIMrotObs.fFrBe),
                           ptIMparams.f1divTr),
                      fMul(ptIMrotObs.fWrE, fFrAl))
        fFrBe == fAdd(ptIMrotObs.fPrevFrBe,
                      fMul(fMul(Half, ptIMparams.fDt),
                           fAdd(fErBe, ptIMrotObs.fPrevErBe)))
    IN  [ptIMrotObs EXCEPT
            !.fErAl = fErAl, !.fFrAl = fFrAl, !.fPrevFrAl = fFrAl,
            !.fErBe = fErBe, !.fFrBe = fFrBe, !.fPrevFrBe = fFrBe]

tIMrotObs_calc(ptIMrotObs, ptIMparams) ==
    LET fErAl == fSub(fMul(fSub(fMul(ptIMrotObs.fIsAl, ptIMparams.fLm),
                                ptIMrotObs.fFrAl),
                           ptIMparams.f1divTr),
                      fMul(ptIMrotObs.fWrE, ptIMrotObs.fFrBe))
        fFrAl == fAdd(ptIMrotObs.fPrevFrAl,
                      fMul(fMul(Half, ptIMparams.fDt),
                           fAdd(fErAl, ptIMrotObs.fPrevErAl)))
        \* the beta block runs after fFrAl has been stored
        fErBe == fAdd(fMul(fSub(fMul(ptIMrotObs.fIsBe, ptIMparams.fLm),
                                ptIMrotObs.fFrBe),
                           ptIMparams.f1divTr),
                      fMul(ptIMrotObs.fWrE, fFrAl))
        fFrBe == fAdd(ptIMrotObs.fPrevFrBe,
                      fMul(fMul(Half, ptIMparams.fDt),
                           fAdd(fErBe, ptIMrotObs.fPrevErBe)))
    IN  [ptIMrotObs EXCEPT
            !.fErAl = fErAl, !.fFrAl = fFrAl,
            !.fPrevErAl = fErAl, !.fPrevFrAl = fFrAl,
            !.fErBe = fErBe, !.fFrBe = fFrBe,
            !.fPrevErBe = fErBe, !.fPrevFrBe = fFrBe]

SpeedObsBody(ptIMspeedObs, ptIMparams, fWrEforRotor, limited) ==
    LET statIn == [ptIMspeedObs.sIMstatObs EXCEPT
                      !.fUsAl = ptIMspeedObs.fUsAl,
                      !.fUsBe = ptIMspeedObs.fUsBe,
                      !.fIsAl = ptIMspeedObs.fIsAl,
                      !.fIsBe = ptIMspeedObs.fIsBe]
        rotIn == [ptIMspeedObs.sIMrotObs EXCEPT
                      !.fIsAl = ptIMspeedObs.fIsAl,
                      !.fIsBe = ptIMspeedObs.fIsBe,
                      !.fWrE = fWrEforRotor]
        stat == tIMstatObs_calc(statIn, ptIMparams)
        rot == tIMrotObs_calc(rotIn, ptIMparams)
        fIn == fSub(fMul(ptIMspeedObs.fIsAl, fSub(stat.fEsBe, rot.fErBe)),
                    fMul(ptIMspeedObs.fIsBe, fSub(stat.fEsAl, rot.fErAl)))
        pi == m_calc([ptIMspeedObs.sPI EXCEPT !.fIn = fIn])
    IN  [ptIMspeedObs EXCEPT
            !.sIMstatObs = stat,
            !.sIMrotObs = rot,
            !.sPI = pi,
            !.fWrE = IF limited THEN pi.fOut ELSE fAdd(pi.fPout, pi.fIout),
            !.fFrAng = atan2f(rot.fFrBe, rot.fFrAl),
            !.fFrMagn = hypotf(rot.fFrBe, rot.fFrAl)]

\* the speed estimate is computed first and used by the rotor observer of the
\* same call
tIMspeedObs_calc_sameStepSpeed(ptIMspeedObs, ptIMparams) ==
    LET first == SpeedObsBody(ptIMspeedObs, ptIMparams, ptIMspeedObs.fWrE, TRUE)
    IN  SpeedObsBody(ptIMspeedObs, ptIMparams, first.fWrE, TRUE)

\* the speed estimate is taken from the controller before its output limiter
tIMspeedObs_calc_unlimited(ptIMspeedObs, ptIMparams) ==
    SpeedObsBody(ptIMspeedObs, ptIMparams, ptIMspeedObs.fWrE, FALSE)

tIMspeedObs_calc(ptIMspeedObs, ptIMparams) ==
    LET statIn == [ptIMspeedObs.sIMstatObs EXCEPT
                      !.fUsAl = ptIMspeedObs.fUsAl,
                      !.fUsBe = ptIMspeedObs.fUsBe,
                      !.fIsAl = ptIMspeedObs.fIsAl,
                      !.fIsBe = ptIMspeedObs.fIsBe]
        rotIn == [ptIMspeedObs.sIMrotObs EXCEPT
                      !.fIsAl = ptIMspeedObs.fIsAl,
                      !.fIsBe = ptIMspeedObs.fIsBe,
                      !.fWrE = ptIMspeedObs.fWrE]
        stat == tIMstatObs_calc(statIn, ptIMparams)
        rot == tIMrotObs_calc(rotIn, ptIMparams)
        fIn == fSub(fMul(ptIMspeedObs.fIsAl, fSub(stat.fEsBe, rot.fErBe)),
                    fMul(ptIMspeedObs.fIsBe, fSub(stat.fEsAl, rot.fErAl)))
        pi == m_calc([ptIMspeedObs.sPI EXCEPT !.fIn = fIn])
    IN  [ptIMspeedObs EXCEPT
            !.sIMstatObs = stat,
            !.sIMrotObs = rot,
            !.sPI = pi,
            !.fWrE = pi.fOut,
            !.fFrAng = atan2f(rot.fFrBe, rot.fFrAl),
            !.fFrMagn = hypotf(rot.fFrBe, rot.fFrAl)]

(***************************************************************************)
(* tIMspeedObs_calc statement by statement, on the machine state           *)
(* [so |-> *ptIMspeedObs, p |-> *ptIMparams]: each observer call is handed *)
(* a pointer to its own sub-record and the pointer to the parameters.      *)
(***************************************************************************)
SpeedObsCopyInputs(st) ==
    [st EXCEPT !.so.sIMstatObs.fUsAl = st.so.fUsAl,
               !.so.sIMstatObs.fUsBe = st.so.fUsBe,
               !.so.sIMstatObs.fIsAl = st.so.fIsAl,
               !.so.sIMstatObs.fIsBe = st.so.fIsBe,
               !.so.sIMrotObs.fIsAl = st.so.fIsAl,
               !.so.sIMrotObs.fIsBe = st.so.fIsBe,
               !.so.sIMrotObs.fWrE = st.so.fWrE]

SpeedObsCallStat(st) ==
    [st EXCEPT !.so.sIMstatObs = tIMstatObs_calc(st.so.sIMstatObs, st.p)]

\* a rotor observer that takes the measured current from the stator
\* observer's history fields
SpeedObsCallRot_readsStatorHistory(st) ==
    [st EXCEPT !.so.sIMrotObs =
        tIMrotObs_calc([st.so.sIMrotObs EXCEPT
                           !.fIsAl = st.so.sIMstatObs.fPrevIsAl,
                           !.fIsBe = st.so.sIMstatObs.fPrevIsBe], st.p)]

SpeedObsCallRot(st) ==
    [st EXCEPT !.so.sIMrotObs = tIMrotObs_calc(st.so.sIMrotObs, st.p)]

SpeedObsFinish(st) ==
    LET fIn == fSub(fMul(st.so.fIsAl,
                         fSub(st.so.sIMstatObs.fEsBe, st.so.sIMrotObs.fErBe)),
                    fMul(st.so.fIsBe,
                         fSub(st.so.sIMstatObs.fEsAl, st.so.sIMrotObs.fErAl)))
        pi == m_calc([st.so.sPI EXCEPT !.fIn = fIn])
    IN  [st EXCEPT !.so.sPI = pi,
                   !.so.fWrE = pi.fOut,
                   !.so.fFrAng = atan2f(st.so.sIMrotObs.fFrBe, st.so.sIMrotObs.fFrAl),
                   !.so.fFrMagn = hypotf(st.so.sIMrotObs.fFrBe, st.so.sIMrotObs.fFrAl)]

(***************************************************************************)
(* The caller of one controller instance: it fills in the gains, the       *)
(* limits and the sampling time of a record built from the defaults, then  *)
(* writes fIn and calls m_calc once per sample, or calls m_rst.            *)
(*   ins  : the inputs given since construction or the last reset          *)
(*   last : the operation run last, pre : the record it was run on         *)
(***************************************************************************)
MaxCalls == 3

MaxGain == 2

MaxIn == 1

WideLim == 50

Gains == {F(k) : k \in 1..MaxGain}

Inputs == {F(k) : k \in (-MaxIn)..MaxIn}

SampleTimes == {F(1), Half}

\* <<fLowOutLim, fUpOutLim>>: wide, around 0, above 0, below 0, inverted
LimitPairs ==
    {<<F(-WideLim), F(WideLim)>>, <<F(-1), F(1)>>, <<F(1), F(2)>>,
     <<F(-2), F(-1)>>, <<F(2), F(1)>>}

CtlConfigs ==
    {[P_DEFAULTS EXCEPT !.fKp = kp, !.fLowOutLim = lim[1], !.fUpOutLim = lim[2]] :
        kp \in Gains, lim \in LimitPairs}
    \cup
    {[PI_DEFAULTS EXCEPT !.fKp = kp, !.fKi = ki, !.fDtSec = dt,
                         !.fLowOutLim = lim[1], !.fUpOutLim = lim[2]] :
        kp \in Gains, ki \in Gains, dt \in SampleTimes, lim \in LimitPairs}
    \cup
    {[PD_DEFAULTS EXCEPT !.fKp = kp, !.fKd = kd, !.fDtSec = dt,
                         !.fLowOutLim = lim[1], !.fUpOutLim = lim[2]] :
        kp \in Gains, kd \in Gains, dt \in SampleTimes, lim \in LimitPairs}
    \cup
    {[PID_DEFAULTS EXCEPT !.fKp = kp, !.fKi = ki, !.fKd = kd, !.fDtSec = dt,
                          !.fLowOutLim = lim[1], !.fUpOutLim = lim[2]] :
        kp \in Gains, ki \in Gains, kd \in Gains, dt \in SampleTimes,
        lim \in LimitPairs}

InitCtl ==
    /\ ctl \in CtlConfigs
    /\ ins = <<>>
    /\ prm = IM_PARAMS_DEFAULTS
    /\ rotObs = IM_ROT_OBS_DEFAULTS
    /\ statObs = IM_STAT_OBS_DEFAULTS
    /\ spd = IM_SPEED_OBS_DEFAULTS
    /\ calls = 0
    /\ inits = 0
    /\ last = "new"
    /\ pre = ctl

CtlCalc(x) ==
    /\ calls < MaxCalls
    /\ ctl' = m_calc([ctl EXCEPT !.fIn = x])
    /\ ins' = Append(ins, x)
    /\ calls' = calls + 1
    /\ last' = "calc"
    /\ pre' = ctl
    /\ UNCHANGED <<prm, rotObs, statObs, spd, inits>>

CtlRst ==
    /\ calls < MaxCalls
    /\ ctl' = m_rst(ctl)
    /\ ins' = <<>>
    /\ calls' = calls + 1
    /\ last' = "rst"
    /\ pre' = ctl
    /\ UNCHANGED <<prm, rotObs, statObs, spd, inits>>

NextCtl == (\E x \in Inputs : CtlCalc(x)) \/ CtlRst

SpecCtl == InitCtl /\ [][NextCtl]_vars

(***************************************************************************)
(* The estimator chain as its caller drives it: the motor constants are    *)
(* written into a parameter record built from the defaults, m_init is      *)
(* called (once, or again with the constants unchanged), and then the      *)
(* speed observer is given one (voltage, current) sample per call.         *)
(*   ins   : the samples <<fUsAl, fUsBe, fIsAl, fIsBe>> given so far       *)
(*   calls : the number of calc calls, inits : the number of init calls    *)
(***************************************************************************)
MaxSpeedCalls == 3

MaxInits == 2

\* <<fDt, fRs, fRr, fLs, fLr, fLm>>: two regular machines, then fLr = 0,
\* fLm = 0, fLs = 0, fLr = fLm = 0 with fRr = 0, and fLs*fLr = fLm^2 twice.
\* The regular machines are chosen so that the trajectories stay on small
\* rationals.
MotorConstants ==
    {<<F(2), F(1), F(1), F(3), F(1), F(1)>>,
     <<F(2), F(1), F(2), F(3), F(1), F(1)>>,
     <<F(2), F(1), F(1), F(2), F(0), F(1)>>,
     <<F(2), F(1), F(1), F(2), F(2), F(0)>>,
     <<F(2), F(1), F(1), F(0), F(2), F(1)>>,
     <<F(2), F(1), F(0), F(1), F(0), F(0)>>,
     <<F(2), F(1), F(1), F(1), F(1), F(1)>>,
     <<F(2), F(1), F(1), F(4), F(1), F(2)>>}

\* <<fKp, fKi, fLowOutLim, fUpOutLim>> of the speed loop's PI controller
SpeedPIConfigs ==
    {<<F(1), F(1), F(-2), F(2)>>,
     <<F(1), F(2), F(-1), F(3)>>,
     <<F(2), F(1), F(1), F(-1)>>}

\* <<fUsAl, fUsBe, fIsAl, fIsBe>>
Samples ==
    {<<F(0), F(0), F(0), F(0)>>,
     <<F(0), F(1), F(1), F(0)>>,
     <<F(1), F(0), F(0), F(1)>>,
     <<F(1), F(0), F(1), F(0)>>}

Init ==
    /\ \E m \in MotorConstants :
          prm = [IM_PARAMS_DEFAULTS EXCEPT !.fDt = m[1], !.fRs = m[2],
                    !.fRr = m[3], !.fLs = m[4], !.fLr = m[5], !.fLm = m[6]]
    /\ \E c \in SpeedPIConfigs :
          spd = [IM_SPEED_OBS_DEFAULTS EXCEPT
                    !.sPI.fDtSec = prm.fDt, !.sPI.fKp = c[1], !.sPI.fKi = c[2],
                    !.sPI.fLowOutLim = c[3], !.sPI.fUpOutLim = c[4]]
    /\ ctl = P_DEFAULTS
    /\ rotObs = IM_ROT_OBS_DEFAULTS
    /\ statObs = IM_STAT_OBS_DEFAULTS
    /\ ins = <<>>
    /\ calls = 0
    /\ inits = 0
    /\ last = "new"
    /\ pre = prm

ParamsInit ==
    /\ calls = 0
    /\ inits < MaxInits
    /\ prm' = tIMparams_init(prm)
    /\ inits' = inits + 1
    /\ last' = "init"
    /\ pre' = prm
    /\ UNCHANGED <<ctl, ins, rotObs, statObs, spd, calls>>

SpeedCalc(u) ==
    /\ inits > 0
    /\ calls < MaxSpeedCalls
    /\ spd' = tIMspeedObs_calc([spd EXCEPT !.fUsAl = u[1], !.fUsBe = u[2],
                                           !.fIsAl = u[3], !.fIsBe = u[4]], prm)
    /\ ins' = Append(ins, u)
    /\ calls' = calls + 1
    /\ last' = "calc"
    /\ pre' = spd
    /\ UNCHANGED <<ctl, prm, rotObs, statObs, inits>>

Next == ParamsInit \/ \E u \in Samples : SpeedCalc(u)

Spec == Init /\ [][Next]_vars

(***************************************************************************)
(* The rotor flux observer used on its own (the sensored observer): the    *)
(* caller writes the measured current and the rotor speed, then calls      *)
(* m_calc, once per sample, with initialised machine parameters.           *)
(***************************************************************************)
MaxRotCalls == 3

\* <<fDt, fRs, fRr, fLs, fLr, fLm>>
RotMotorConstants ==
    {<<F(2), F(1), F(1), F(3), F(1), F(1)>>,
     <<F(1), F(1), F(1), F(2), F(2), F(1)>>}

\* <<fIsAl, fIsBe, fWrE>>
RotSamples ==
    {<<ia, ib, w>> : ia \in {F(0), F(1)}, ib \in {F(0), F(1)},
                     w \in {F(-1), F(0), F(1)}}

InitRot ==
    /\ \E m \in RotMotorConstants :
          prm = tIMparams_init([IM_PARAMS_DEFAULTS EXCEPT !.fDt = m[1],
                    !.fRs = m[2], !.fRr = m[3], !.fLs = m[4], !.fLr = m[5],
                    !.fLm = m[6]])
    /\ rotObs = IM_ROT_OBS_DEFAULTS
    /\ ctl = P_DEFAULTS
    /\ statObs = IM_STAT_OBS_DEFAULTS
    /\ spd = IM_SPEED_OBS_DEFAULTS
    /\ ins = <<>>
    /\ calls = 0
    /\ inits = 1
    /\ last = "new"
    /\ pre = rotObs

RotCalc(u) ==
    /\ calls < MaxRotCalls
    /\ rotObs' = tIMrotObs_calc([rotObs EXCEPT !.fIsAl = u[1], !.fIsBe = u[2],
                                               !.fWrE = u[3]], prm)
    /\ ins' = Append(ins, u)
    /\ calls' = calls + 1
    /\ last' = "rot"
    /\ pre' = rotObs
    /\ UNCHANGED <<ctl, prm, statObs, spd, inits>>

NextRot == \E u \in RotSamples : RotCalc(u)

SpecRot == InitRot /\ [][NextRot]_vars

(***************************************************************************)
(* The stator back-EMF observer used on its own: the caller writes the     *)
(* measured voltage and current, then calls m_calc, once per sample, with  *)
(* initialised machine parameters.                                         *)
(***************************************************************************)
MaxStatCalls == 3

\* <<fDt, fRs, fRr, fLs, fLr, fLm>>
StatMotorConstants ==
    {<<F(2), F(1), F(1), F(3), F(1), F(1)>>,
     <<Half, F(2), F(1), F(2), F(2), F(1)>>}

\* <<fUsAl, fUsBe, fIsAl, fIsBe>>
StatSamples ==
    {<<F(0), F(0), F(0), F(0)>>, <<F(1), F(0), F(1), F(0)>>,
     <<F(0), F(1), F(1), F(2)>>, <<F(1), F(1), F(-1), F(1)>>,
     <<F(2), F(-1), F(2), F(-1)>>}

InitStat ==
    /\ \E m \in StatMotorConstants :
          prm = tIMparams_init([IM_PARAMS_DEFAULTS EXCEPT !.fDt = m[1],
                    !.fRs = m[2], !.fRr = m[3], !.fLs = m[4], !.fLr = m[5],
                    !.fLm = m[6]])
    /\ statObs = IM_STAT_OBS_DEFAULTS
    /\ ctl = P_DEFAULTS
    /\ rotObs = IM_ROT_OBS_DEFAULTS
    /\ spd = IM_SPEED_OBS_DEFAULTS
    /\ ins = <<>>
    /\ calls = 0
    /\ inits = 1
    /\ last = "new"
    /\ pre = statObs

StatCalc(u) ==
    /\ calls < MaxStatCalls
    /\ statObs' = tIMstatObs_calc([statObs EXCEPT !.fUsAl = u[1],
                                       !.fUsBe = u[2], !.fIsAl = u[3],
                                       !.fIsBe = u[4]], prm)
    /\ ins' = Append(ins, u)
    /\ calls' = calls + 1
    /\ last' = "stat"
    /\ pre' = statObs
    /\ UNCHANGED <<ctl, prm, rotObs, spd, inits>>

NextStat == \E u \in StatSamples : StatCalc(u)

SpecStat == InitStat /\ [][NextStat]_vars

(***************************************************************************)
(* float arithmetic with its width: IEEE 754 binary32, round to nearest,   *)
(* ties to even, every operation rounded on its own (no fused multiply-    *)
(* add).  A value is [s, e, m] = (-1)^s * m * 2^e with m = 0 or            *)
(* 2^23 <= m < 2^24; b32Other stands for every value outside the normal    *)
(* range (subnormal, infinite, NaN) and is absorbing.  Used where the      *)
(* numbers of a run cannot be kept as exact rationals.                     *)
(***************************************************************************)
RECURSIVE Pow2(_)
Pow2(k) == IF k = 0 THEN 1 ELSE 2 * Pow2(k - 1)

RECURSIVE BitLen(_)
BitLen(i) == IF i = 0 THEN 0 ELSE 1 + BitLen(i \div 2)

b32Other == [s |-> 0, e |-> 0, m |-> -1]

b32IsNum(a) == a.m >= 0

\* the float nearest to (-1)^s * M * 2^E, for 0 <= M < 2^30
b32Round(s, M, E) ==
    LET n == BitLen(M)
        k == n - 24
        q == M \div Pow2(k)
        r == M % Pow2(k)
        h == Pow2(k - 1)
        up == IF r > h \/ (r = h /\ q % 2 = 1) THEN 1 ELSE 0
        res == IF M = 0 THEN [s |-> s, e |-> 0, m |-> 0]
               ELSE IF n <= 24
                    THEN [s |-> s, e |-> E - (24 - n), m |-> M * Pow2(24 - n)]
               ELSE IF q + up = Pow2(24)
                    THEN [s |-> s, e |-> E + k + 1, m |-> Pow2(23)]
               ELSE [s |-> s, e |-> E + k, m |-> q + up]
    IN  IF res.m # 0 /\ (res.e < -149 \/ res.e > 104) THEN b32Other ELSE res

\* an integer of at most 24 bits as a float
b32FromInt(i) == b32Round(IF i < 0 THEN 1 ELSE 0, Abs(i), 0)

b32Neg(a) == IF b32IsNum(a) THEN [a EXCEPT !.s = 1 - a.s] ELSE a

b32Abs(a) == IF b32IsNum(a) THEN [a EXCEPT !.s = 0] ELSE a

\* a + b: the smaller operand is shifted right behind three guard bits, the
\* bits shifted out are kept as a sticky last bit
b32Add(a, b) ==
    IF ~b32IsNum(a) \/ ~b32IsNum(b) THEN b32Other
    ELSE IF a.m = 0 /\ b.m = 0
         THEN [s |-> IF a.s = 1 /\ b.s = 1 THEN 1 ELSE 0, e |-> 0, m |-> 0]
    ELSE IF a.m = 0 THEN b
    ELSE IF b.m = 0 THEN a
    ELSE LET hi == IF a.e >= b.e THEN a ELSE b
             lo == IF a.e >= b.e THEN b ELSE a
             d == hi.e - lo.e
             A == hi.m * 8
             B == lo.m * 8
             Bs == IF d > 27 THEN 0 ELSE B \div Pow2(d)
             sticky == IF d > 27 THEN TRUE ELSE B % Pow2(d) # 0
             Bj == IF sticky /\ Bs % 2 = 0 THEN Bs + 1 ELSE Bs
             sum == (IF hi.s = 1 THEN -A ELSE A) + (IF lo.s = 1 THEN -Bj ELSE Bj)
         IN  b32Round(IF sum < 0 THEN 1 ELSE 0, Abs(sum), hi.e - 3)

b32Sub(a, b) == b32Add(a, b32Neg(b))

\* a * b: the 48 bit product of the significands from 12 bit halves
b32Mul(a, b) ==
    IF ~b32IsNum(a) \/ ~b32IsNum(b) THEN b32Other
    ELSE IF a.m = 0 \/ b.m = 0
         THEN [s |-> (a.s + b.s) % 2, e |-> 0, m |-> 0]
    ELSE LET a1 == a.m \div 4096
             a0 == a.m % 4096
             b1 == b.m \div 4096
             b0 == b.m % 4096
             mid == a1 * b0 + a0 * b1
             low == (mid % 4096) * 4096 + a0 * b0
             lo == low % Pow2(24)
             hi == a1 * b1 + mid \div 4096 + low \div Pow2(24)
             M == hi * 16 + lo \div Pow2(20)
             Mj == IF lo % Pow2(20) # 0 /\ M % 2 = 0 THEN M + 1 ELSE M
         IN  b32Round((a.s + b.s) % 2, Mj, a.e + b.e + 20)

\* i quotient bits of r / b by long division: <<quotient, remainder>>
RECURSIVE DivBits(_, _, _, _)
DivBits(r, b, q, i) ==
    IF i = 0 THEN <<q, r>>
    ELSE IF r >= b THEN DivBits(2 * (r - b), b, 2 * q + 1, i - 1)
    ELSE DivBits(2 * r, b, 2 * q, i - 1)

\* a / b for b # 0
b32Div(a, b) ==
    IF ~b32IsNum(a) \/ ~b32IsNum(b) \/ b.m = 0 THEN b32Other
    ELSE IF a.m = 0 THEN [s |-> (a.s + b.s) % 2, e |-> 0, m |-> 0]
    ELSE LET qr == DivBits(a.m, b.m, 0, 27)
             Qj == IF qr[2] # 0 /\ qr[1] % 2 = 0 THEN qr[1] + 1 ELSE qr[1]
         IN  b32Round((a.s + b.s) % 2, Qj, a.e - b.e - 26)

b32Lt(a, b) ==
    LET neg(x) == x.s = 1 /\ x.m # 0
        magLt(x, y) == \/ x.m = 0 /\ y.m # 0
                       \/ /\ x.m # 0 /\ y.m # 0
                          /\ x.e < y.e \/ (x.e = y.e /\ x.m < y.m)
    IN  /\ b32IsNum(a) /\ b32IsNum(b)
        /\ IF neg(a) THEN ~neg(b) \/ magLt(b, a)
           ELSE ~neg(b) /\ magLt(a, b)

b32Le(a, b) == b32IsNum(a) /\ b32IsNum(b) /\ ~b32Lt(b, a)

\* a decimal constant n/d of the source text (n, d integers of at most 24 bits)
b32Const(n, d) == b32Div(b32FromInt(n), b32FromInt(d))

(***************************************************************************)
(* im_estimators.c over binary32: the parameter initialisation and the     *)
(* rotor flux observer, statement for statement as above                   *)
(***************************************************************************)
IM_PARAMS_DEFAULTS_f32 ==
    [fDt |-> b32FromInt(1), fNpP |-> b32FromInt(0), fRs |-> b32FromInt(0),
     fRr |-> b32FromInt(0), fLs |-> b32FromInt(0), fLr |-> b32FromInt(0),
     fLm |-> b32FromInt(0), f1divTr |-> b32FromInt(0),
     f1divKr |-> b32FromInt(0), fSigLs |-> b32FromInt(0),
     m_init |-> "tIMparams_init"]

IM_ROT_OBS_DEFAULTS_f32 ==
    [fIsAl |-> b32FromInt(0), fIsBe |-> b32FromInt(0), fWrE |-> b32FromInt(0),
     fPrevErAl |-> b32FromInt(0), fPrevErBe |-> b32FromInt(0),
     fPrevFrAl |-> b32FromInt(0), fPrevFrBe |-> b32FromInt(0),
     fFrAl |-> b32FromInt(0), fFrBe |-> b32FromInt(0),
     fErAl |-> b32FromInt(0), fErBe |-> b32FromInt(0),
     m_calc |-> "tIMrotObs_calc"]

tIMparams_init_f32(ptIMparams) ==
    [ptIMparams EXCEPT
        !.f1divTr = b32Div(ptIMparams.fRr, ptIMparams.fLr),
        !.f1divKr = b32Div(ptIMparams.fLr, ptIMparams.fLm),
        !.fSigLs = b32Mul(b32Sub(b32FromInt(1),
                                 b32Div(b32Mul(ptIMparams.fLm, ptIMparams.fLm),
                                        b32Mul(ptIMparams.fLs, ptIMparams.fLr))),
                          ptIMparams.fLs)]

\* the same observer with the own-axis flux added instead of subtracted
tIMrotObs_calc_f32_fluxAdded(ptIMrotObs, ptIMparams) ==
    LET fErAl == b32Sub(b32Mul(b32Add(b32Mul(ptIMrotObs.fIsAl, ptIMparams.fLm),
                                      ptIMrotObs.fFrAl),
                               ptIMparams.f1divTr),
                        b32Mul(ptIMrotObs.fWrE, ptIMrotObs.fFrBe))
        fFrAl == b32Add(ptIMrotObs.fPrevFrAl,
                        b32Mul(b32Mul(b32Const(1, 2), ptIMparams.fDt),
                               b32Add(fErAl, ptIMrotObs.fPrevErAl)))
        fErBe == b32Add(b32Mul(b32Add(b32Mul(ptIMrotObs.fIsBe, ptIMparams.fLm),
                                      ptIMrotObs.fFrBe),
                               ptIMparams.f1divTr),
                        b32Mul(ptIMrotObs.fWrE, fFrAl))
        fFrBe == b32Add(ptIMrotObs.fPrevFrBe,
                        b32Mul(b32Mul(b32Const(1, 2), ptIMparams.fDt),
                               b32Add(fErBe, ptIMrotObs.fPrevErBe)))
    IN  [ptIMrotObs EXCEPT
            !.fErAl = fErAl, !.fFrAl = fFrAl,
            !.fPrevErAl = fErAl, !.fPrevFrAl = fFrAl,
            !.fErBe = fErBe, !.fFrBe = fFrBe,
            !.fPrevErBe = fErBe, !.fPrevFrBe = fFrBe]

tIMrotObs_calc_f32(ptIMrotObs, ptIMparams) ==
    LET fErAl == b32Sub(b32Mul(b32Sub(b32Mul(ptIMrotObs.fIsAl, ptIMparams.fLm),
                                      ptIMrotObs.fFrAl),
                               ptIMparams.f1divTr),
                        b32Mul(ptIMrotObs.fWrE, ptIMrotObs.fFrBe))
        fFrAl == b32Add(ptIMrotObs.fPrevFrAl,
                        b32Mul(b32Mul(b32Const(1, 2), ptIMparams.fDt),
                               b32Add(fErAl, ptIMrotObs.fPrevErAl)))
        \* the beta block runs after fFrAl has been stored
        fErBe == b32Add(b32Mul(b32Sub(b32Mul(ptIMrotObs.fIsBe, ptIMparams.fLm),
                                      ptIMrotObs.fFrBe),
                               ptIMparams.f1divTr),
                        b32Mul(ptIMrotObs.fWrE, fFrAl))
        fFrBe == b32Add(ptIMrotObs.fPrevFrBe,
                        b32Mul(b32Mul(b32Const(1, 2), ptIMparams.fDt),
                               b32Add(fErBe, ptIMrotObs.fPrevErBe)))
    IN  [ptIMrotObs EXCEPT
            !.fErAl = fErAl, !.fFrAl = fFrAl,
            !.fPrevErAl = fErAl, !.fPrevFrAl = fFrAl,
            !.fErBe = fErBe, !.fFrBe = fFrBe,
            !.fPrevErBe = fErBe, !.fPrevFrBe = fFrBe]

\* hypotf where one argument is zero: the magnitude of the other, exactly
hypotf_f32(y, x) ==
    IF ~b32IsNum(y) \/ ~b32IsNum(x) THEN b32Other
    ELSE IF y.m = 0 THEN b32Abs(x)
    ELSE IF x.m = 0 THEN b32Abs(y)
    ELSE b32Other

(***************************************************************************)
(* The zero-speed flux build-up run: Dt = 1e-4, Rs = Rr = 1, Ls = Lr = 0.1,*)
(* Lm = 0.095, tIMparams_init called, the rotor observer zero-initialised; *)
(* every sample the caller writes the current (1, 0) and the speed 0 and   *)
(* calls m_calc.                                                           *)
(***************************************************************************)
MaxFluxCalls == 1000

InitFlux ==
    /\ prm = tIMparams_init_f32([IM_PARAMS_DEFAULTS_f32 EXCEPT
                !.fDt = b32Const(1, 10000), !.fRs = b32FromInt(1),
                !.fRr = b32FromInt(1), !.fLs = b32Const(1, 10),
                !.fLr = b32Const(1, 10), !.fLm = b32Const(95, 1000)])
    /\ rotObs = IM_ROT_OBS_DEFAULTS_f32
    /\ ctl = P_DEFAULTS
    /\ statObs = IM_STAT_OBS_DEFAULTS
    /\ spd = IM_SPEED_OBS_DEFAULTS
    /\ ins = <<>>
    /\ calls = 0
    /\ inits = 1
    /\ last = "new"
    /\ pre = rotObs

FluxCalc ==
    /\ calls < MaxFluxCalls
    /\ rotObs' = tIMrotObs_calc_f32([rotObs EXCEPT !.fIsAl = b32FromInt(1),
                                                   !.fIsBe = b32FromInt(0),
                                                   !.fWrE = b32FromInt(0)], prm)
    /\ calls' = calls + 1
    /\ last' = "flux"
    /\ pre' = rotObs
    /\ UNCHANGED <<ctl, ins, prm, statObs, spd, inits>>

NextFlux == FluxCalc

SpecFlux == InitFlux /\ [][NextFlux]_vars

(***************************************************************************)
(* Properties of the controllers (checked under SpecCtl)                   *)
(***************************************************************************)
fMin(a, b) == IF fLt(b, a) THEN b ELSE a

fMax(a, b) == IF fGt(b, a) THEN b ELSE a

Clamp(v, lo, hi) == fMin(fMax(v, lo), hi)

IsP == ctl.m_calc = "tP_calc"

IsPI == ctl.m_calc = "tPI_calc"

HasD == ctl.m_calc \in {"tPD_calc", "tPID_calc"}

ConstantRun == ins # <<>> /\ \A i \in 1..Len(ins) : ins[i] = ins[1]

ZeroRun == ins # <<>> /\ \A i \in 1..Len(ins) : ins[i] = Zero

\* I_n of the trapezoidal rule for the proportional signal P held from sample 1
RECURSIVE TrapezoidI(_, _, _, _)
TrapezoidI(P, Ki, Dt, n) ==
    IF n = 0 THEN Zero
    ELSE fAdd(TrapezoidI(P, Ki, Dt, n - 1),
              fMul(fMul(fMul(Half, Dt), Ki),
                   fAdd(P, IF n = 1 THEN Zero ELSE P)))

InLimits(v, c) == fLe(c.fLowOutLim, v) /\ fLe(v, c.fUpOutLim)

\* C3: a PI controller fed a constant input x for n calls from the zero state,
\* with no clamping, outputs P + I_n, where P = Kp*x and
\* I_n = I_(n-1) + 0.5*Dt*Ki*(P_n + P_(n-1)), P_0 = 0, I_0 = 0.
C3_PITrapezoidalClosedForm ==
    LET P == fMul(ins[1], ctl.fKp)
        closed == fAdd(P, TrapezoidI(P, ctl.fKi, ctl.fDtSec, Len(ins)))
    IN  (IsPI /\ last = "calc" /\ ConstantRun
            /\ InLimits(closed, ctl) /\ InLimits(fAdd(ctl.fPout, ctl.fIout), ctl))
        => ctl.fOut = closed

\* C4: the derivative term written by a PD / PID calc call is the backward
\* difference Kd*(P_n - P_(n-1))/Dt of the proportional signal P = Kp*In
\* (0 on the second of two calls with the same input).
C4_DerivativeIsBackwardDifference ==
    LET n == Len(ins)
        Pn == fMul(ins[n], ctl.fKp)
        Pprev == IF n = 1 THEN Zero ELSE fMul(ins[n - 1], ctl.fKp)
    IN  (HasD /\ last = "calc")
        => ctl.fDout = fDiv(fMul(ctl.fKd, fSub(Pn, Pprev)), ctl.fDtSec)

\* C5 as stated: after every tP_calc call fOut = min(max(fKp*fIn, fLowOutLim),
\* fUpOutLim), inverted limit pairs included.
C5_POutputIsMinMaxClamp ==
    (IsP /\ last = "calc")
    => ctl.fOut = Clamp(fMul(ctl.fKp, ctl.fIn), ctl.fLowOutLim, ctl.fUpOutLim)

\* C5 amended: after every tP_calc call fOut = max(min(fKp*fIn, fUpOutLim),
\* fLowOutLim): the upper limit is applied first, the lower limit last.  This
\* is clamp(fKp*fIn, fLowOutLim, fUpOutLim) whenever fLowOutLim <= fUpOutLim,
\* and fLowOutLim whenever fLowOutLim > fUpOutLim.
C5_POutputUpperThenLower ==
    LET v == fMul(ctl.fKp, ctl.fIn)
    IN  (IsP /\ last = "calc")
        => /\ ctl.fIn = ins[Len(ins)]
           /\ ctl.fOut = fMax(fMin(v, ctl.fUpOutLim), ctl.fLowOutLim)
           /\ fLe(ctl.fLowOutLim, ctl.fUpOutLim)
                => ctl.fOut = Clamp(v, ctl.fLowOutLim, ctl.fUpOutLim)
           /\ fGt(ctl.fLowOutLim, ctl.fUpOutLim) => ctl.fOut = ctl.fLowOutLim

C5_Witness ==
    /\ IsP /\ last = "calc"
    /\ fGt(ctl.fLowOutLim, ctl.fUpOutLim)
    /\ fGt(fMul(ctl.fKp, ctl.fIn), ctl.fUpOutLim)
    /\ ctl.fOut = ctl.fLowOutLim

\* C6 as stated: for any gain and any limits, every tP_calc call with input 0
\* after a reset (or construction) outputs 0.
C6_ZeroInZeroOutAnyLimits ==
    (IsP /\ last = "calc" /\ ZeroRun) => ctl.fOut = Zero

\* C6 amended: every tP_calc call with input 0 after a reset outputs the
\* limited value of 0: 0 when fLowOutLim <= 0 <= fUpOutLim, fLowOutLim when
\* fLowOutLim > 0, and the larger of the two limits when fUpOutLim < 0.
C6_ZeroInGivesLimitedZero ==
    (IsP /\ last = "calc" /\ ZeroRun)
    => /\ (fLe(ctl.fLowOutLim, Zero) /\ fLe(Zero, ctl.fUpOutLim))
            => ctl.fOut = Zero
       /\ fGt(ctl.fLowOutLim, Zero) => ctl.fOut = ctl.fLowOutLim
       /\ fLt(ctl.fUpOutLim, Zero)
            => ctl.fOut = fMax(ctl.fUpOutLim, ctl.fLowOutLim)

C6_Witness ==
    /\ IsP /\ last = "calc" /\ ZeroRun /\ Len(ins) >= 2
    /\ calls > Len(ins)
    /\ fLe(ctl.fLowOutLim, Zero) /\ fLe(Zero, ctl.fUpOutLim)
    /\ ctl.fOut = Zero

\* the input, the output and the history / intermediate fields of a controller
SignalFields ==
    {"fIn", "fOut", "fPout", "fIout", "fIprevIn", "fIprevOut", "fDout",
     "fDprevIn", "fDprevOut"}

\* the gains, the limits and the sampling interval
ConfigFields == {"fKp", "fKi", "fKd", "fUpOutLim", "fLowOutLim", "fDtSec"}

\* C7: reset of a P, PI, PD or PID controller, in any reachable state, zeroes
\* the input, the output and every history / intermediate field the record
\* has, and leaves gains, limits and sampling interval unchanged.
C7_ResetZeroesSignalsKeepsConfig ==
    (last = "rst")
    => /\ DOMAIN ctl = DOMAIN pre
       /\ DOMAIN ctl \subseteq SignalFields \cup ConfigFields \cup {"m_calc", "m_rst"}
       /\ \A f \in DOMAIN ctl \cap SignalFields : ctl[f] = Zero
       /\ \A f \in DOMAIN ctl \ SignalFields : ctl[f] = pre[f]

C7_Witness ==
    /\ last = "rst"
    /\ ctl.m_rst = "tPID_rst"
    /\ \A f \in DOMAIN pre \cap SignalFields : pre[f] # Zero

(***************************************************************************)
(* Properties of the estimator chain (checked under Spec)                  *)
(***************************************************************************)
\* the sample given in the call that led to the current state
Sample == ins[Len(ins)]

\* C1: the speed the rotor observer uses in call n (sIMrotObs.fWrE) is the
\* speed estimate fWrE left by call n-1 (the controller output of that call,
\* the initial 0 for n = 1); the rotor observer's result of call n is the one
\* computed with that value.
C1_RotorUsesPreviousSpeed ==
    (last = "calc")
    => /\ spd.sIMrotObs.fWrE = pre.fWrE
       /\ calls = 1 => pre.fWrE = Zero
       /\ calls > 1 => pre.fWrE = pre.sPI.fOut
       /\ spd.sIMrotObs =
             tIMrotObs_calc([pre.sIMrotObs EXCEPT !.fIsAl = Sample[3],
                                !.fIsBe = Sample[4], !.fWrE = pre.fWrE], prm)

C1_Witness ==
    /\ last = "calc" /\ calls >= 2
    /\ IsFinite(spd.fWrE) /\ IsFinite(pre.fWrE)
    /\ pre.fWrE # Zero
    /\ spd.fWrE # pre.fWrE
    /\ spd.sIMrotObs.fWrE = pre.fWrE
    /\ pre.sIMrotObs.fFrAl # Zero /\ pre.sIMrotObs.fFrBe # Zero

\* C8 as stated: after every tIMspeedObs_calc call fWrE = sPI.fOut and, when
\* sPI.fLowOutLim <= sPI.fUpOutLim, fLowOutLim <= fWrE <= fUpOutLim.
C8_SpeedWithinLimits ==
    (last = "calc")
    => /\ spd.fWrE = spd.sPI.fOut
       /\ fLe(spd.sPI.fLowOutLim, spd.sPI.fUpOutLim)
            => /\ fLe(spd.sPI.fLowOutLim, spd.fWrE)
               /\ fLe(spd.fWrE, spd.sPI.fUpOutLim)

\* C8 amended: after every tIMspeedObs_calc call fWrE = sPI.fOut and, when
\* sPI.fLowOutLim <= sPI.fUpOutLim and the controller's unlimited sum
\* fPout + fIout is not NaN, fLowOutLim <= fWrE <= fUpOutLim; when the sum is
\* NaN (a NaN sample or undefined machine coefficients) fWrE is NaN.
C8_SpeedWithinLimitsUnlessNaN ==
    (last = "calc")
    => /\ spd.fWrE = spd.sPI.fOut
       /\ (/\ fLe(spd.sPI.fLowOutLim, spd.sPI.fUpOutLim)
           /\ ~IsNaN(fAdd(spd.sPI.fPout, spd.sPI.fIout)))
            => /\ fLe(spd.sPI.fLowOutLim, spd.fWrE)
               /\ fLe(spd.fWrE, spd.sPI.fUpOutLim)
       /\ IsNaN(fAdd(spd.sPI.fPout, spd.sPI.fIout)) => IsNaN(spd.fWrE)

C8_Witness ==
    /\ last = "calc"
    /\ fLe(spd.sPI.fLowOutLim, spd.sPI.fUpOutLim)
    /\ fGt(fAdd(spd.sPI.fPout, spd.sPI.fIout), spd.sPI.fUpOutLim)
    /\ spd.fWrE = spd.sPI.fUpOutLim

Undefined(p) == ~IsFinite(p.f1divTr) \/ ~IsFinite(p.f1divKr) \/ ~IsFinite(p.fSigLs)

\* C9 as stated: tIMparams_init leaves an infinite or NaN derived coefficient
\* when fLr = 0, when fLm = 0, and when fLs*fLr = fLm^2 with all three
\* non-zero.
C9_UndefinedInDegenerateCases ==
    (last = "init")
    => /\ prm.fLr = Zero => Undefined(prm)
       /\ prm.fLm = Zero => Undefined(prm)
       /\ (/\ prm.fLs # Zero /\ prm.fLr # Zero /\ prm.fLm # Zero
           /\ fMul(prm.fLs, prm.fLr) = fMul(prm.fLm, prm.fLm))
            => Undefined(prm)

\* C9 amended: tIMparams_init leaves an infinite or NaN derived coefficient
\* when fLr = 0 (f1divTr and fSigLs), when fLm = 0 (f1divKr) and when fLs = 0
\* (fSigLs); with fLs, fLr, fLm all non-zero (and no overflow or underflow of
\* the products and quotients) the three coefficients are finite, and
\* fLs*fLr = fLm^2 gives fSigLs = 0.  No error is signalled: the
\* value is stored and the compute calls that follow use it, which makes the
\* back-EMF outputs (rotor for f1divTr, stator for f1divKr and fSigLs)
\* infinite or NaN.
C9_UndefinedWhenDivisorIsZero ==
    /\ (last = "init")
       => /\ prm.fLr = Zero => (~IsFinite(prm.f1divTr) /\ ~IsFinite(prm.fSigLs))
          /\ prm.fLm = Zero => ~IsFinite(prm.f1divKr)
          /\ prm.fLs = Zero => ~IsFinite(prm.fSigLs)
          /\ (prm.fLs # Zero /\ prm.fLr # Zero /\ prm.fLm # Zero)
               => /\ ~Undefined(prm)
                  /\ fMul(prm.fLs, prm.fLr) = fMul(prm.fLm, prm.fLm)
                       => prm.fSigLs = Zero
    /\ (last = "calc")
       => /\ ~IsFinite(prm.f1divTr)
               => (~IsFinite(spd.sIMrotObs.fErAl) /\ ~IsFinite(spd.sIMrotObs.fErBe))
          /\ (~IsFinite(prm.f1divKr) \/ IsNaN(prm.fSigLs))
               => (~IsFinite(spd.sIMstatObs.fEsAl) /\ ~IsFinite(spd.sIMstatObs.fEsBe))

C9_Witness ==
    /\ last = "calc"
    /\ prm.fLr = Zero
    /\ ~IsFinite(prm.f1divTr)
    /\ ~IsFinite(spd.sIMrotObs.fErAl)
    /\ IsNaN(spd.fWrE)

ConstantFields == {"fDt", "fNpP", "fRs", "fRr", "fLs", "fLr", "fLm", "m_init"}

\* C10: tIMparams_init writes f1divTr = Rr/Lr, f1divKr = Lr/Lm and
\* fSigLs = (1 - Lm^2/(Ls*Lr))*Ls and no other field, so a second init call
\* with the constants unchanged leaves the record as the first call left it.
C10_InitWritesDerivedOnly ==
    (last = "init")
    => /\ prm.f1divTr = fDiv(pre.fRr, pre.fLr)
       /\ prm.f1divKr = fDiv(pre.fLr, pre.fLm)
       /\ prm.fSigLs = fMul(fSub(F(1), fDiv(fMul(pre.fLm, pre.fLm),
                                            fMul(pre.fLs, pre.fLr))), pre.fLs)
       /\ \A f \in ConstantFields : prm[f] = pre[f]
       /\ DOMAIN prm = ConstantFields \cup {"f1divTr", "f1divKr", "fSigLs"}
       /\ inits >= 2 => prm = pre

C10_Witness ==
    /\ last = "init" /\ inits = 2
    /\ prm = pre
    /\ ~Undefined(prm)
    /\ prm.f1divTr # Zero /\ prm.f1divKr # Zero /\ prm.fSigLs # Zero

(***************************************************************************)
(* Properties of the rotor observer (checked under SpecRot)                *)
(***************************************************************************)
\* C2: in every tIMrotObs_calc call the cross-coupling term of each axis is
\* computed from the partner axis's flux as the previous call left it, so the
\* result is the same whichever of the two axis blocks is evaluated first.
C2_CrossTermsUsePreviousFlux ==
    (last = "rot")
    => /\ rotObs.fErAl =
             fSub(fMul(fSub(fMul(rotObs.fIsAl, prm.fLm), pre.fFrAl), prm.f1divTr),
                  fMul(rotObs.fWrE, pre.fFrBe))
       /\ rotObs.fErBe =
             fAdd(fMul(fSub(fMul(rotObs.fIsBe, prm.fLm), pre.fFrBe), prm.f1divTr),
                  fMul(rotObs.fWrE, pre.fFrAl))
       /\ rotObs = tIMrotObs_calc_betaFirst(
                      [pre EXCEPT !.fIsAl = rotObs.fIsAl, !.fIsBe = rotObs.fIsBe,
                                  !.fWrE = rotObs.fWrE], prm)

\* the speed observer record as the caller hands it over for the last call
Given ==
    [pre EXCEPT !.fUsAl = Sample[1], !.fUsBe = Sample[2],
                !.fIsAl = Sample[3], !.fIsBe = Sample[4]]

\* C11: within one tIMspeedObs_calc call the stator and the rotor observer
\* commute: calling the rotor observer first gives the same record (speed
\* error sPI.fIn, speed, flux angle, flux magnitude and all history) and the
\* same parameters as the implemented stator-then-rotor order.
C11_ObserversCommute ==
    (last = "calc")
    => LET st == SpeedObsCopyInputs([so |-> Given, p |-> prm])
           statFirst == SpeedObsFinish(SpeedObsCallRot(SpeedObsCallStat(st)))
           rotFirst == SpeedObsFinish(SpeedObsCallStat(SpeedObsCallRot(st)))
       IN  /\ statFirst = [so |-> spd, p |-> prm]
           /\ rotFirst = statFirst

C11_Witness ==
    /\ last = "calc" /\ calls >= 2
    /\ Sample[3] # pre.sIMstatObs.fPrevIsAl
    /\ IsFinite(spd.sPI.fIn) /\ spd.sPI.fIn # Zero
    /\ spd.sIMstatObs.fEsBe # Zero /\ spd.sIMrotObs.fErBe # Zero
    /\ spd.sIMrotObs.fErBe # pre.sIMrotObs.fErBe

(***************************************************************************)
(* Properties of the flux build-up run (checked under SpecFlux)            *)
(***************************************************************************)
\* the flux magnitude the speed observer reports for a rotor observer record
FluxMagn(o) == hypotf_f32(o.fFrBe, o.fFrAl)

\* C12: with Dt = 1e-4, Rr = 1, Lr = 0.1, Lm = 0.095 after init, the speed
\* held at 0 and the constant stator current (1, 0) applied from the
\* zero-initialised record, after every call of the run the beta flux is 0 and
\* the rotor flux magnitude is not below its value before the call and not
\* above Lm * 1 = 0.095.
C12_FluxRisesBelowLm ==
    (last = "flux")
    => /\ rotObs.fFrBe.m = 0
       /\ b32Le(FluxMagn(pre), FluxMagn(rotObs))
       /\ b32Le(FluxMagn(rotObs), b32Mul(prm.fLm, b32FromInt(1)))

\* the last call of the run: the flux still rises and has passed half of Lm
C12_Witness ==
    /\ last = "flux" /\ calls = MaxFluxCalls
    /\ b32Lt(FluxMagn(pre), FluxMagn(rotObs))
    /\ b32Lt(b32Mul(prm.fLm, b32Const(1, 2)), FluxMagn(rotObs))
    /\ b32Lt(FluxMagn(rotObs), prm.fLm)

(***************************************************************************)
(* Properties of the stator observer (checked under SpecStat)              *)
(***************************************************************************)
\* the sample of the call before the last one; all zero before the first call
PrevSample ==
    IF Len(ins) >= 2 THEN ins[Len(ins) - 1] ELSE <<Zero, Zero, Zero, Zero>>

\* (U - Rs*I - SigLs*(I - Iprev)/Dt) * f1divKr
BackEmf(U, I, Iprev) ==
    fMul(fSub(fSub(U, fMul(prm.fRs, I)),
              fMul(prm.fSigLs, fDiv(fSub(I, Iprev), prm.fDt))),
         prm.f1divKr)

\* C14: after call n of tIMstatObs_calc on a record that started zero-initialised,
\* each axis' back-EMF is (U - Rs*I - SigLs*d)*f1divKr with the derivative
\* d = (current of call n - current of call n-1)/Dt (0 before the first call),
\* fPrevIsAl = fIsAl and fPrevIsBe = fIsBe, and the inputs fUsAl, fUsBe, fIsAl,
\* fIsBe are as the caller wrote them; the parameter record is the initialised
\* one, unchanged.
C14_StatorBackEmfFromOneSampleHistory ==
    (last = "stat")
    => /\ statObs.fEsAl = BackEmf(Sample[1], Sample[3], PrevSample[3])
       /\ statObs.fEsBe = BackEmf(Sample[2], Sample[4], PrevSample[4])
       /\ statObs.fPrevIsAl = statObs.fIsAl
       /\ statObs.fPrevIsBe = statObs.fIsBe
       /\ statObs.fUsAl = Sample[1] /\ statObs.fUsBe = Sample[2]
       /\ statObs.fIsAl = Sample[3] /\ statObs.fIsBe = Sample[4]
       /\ pre.fPrevIsAl = PrevSample[3] /\ pre.fPrevIsBe = PrevSample[4]
       /\ prm \in {tIMparams_init([IM_PARAMS_DEFAULTS EXCEPT !.fDt = m[1],
                      !.fRs = m[2], !.fRr = m[3], !.fLs = m[4], !.fLr = m[5],
                      !.fLm = m[6]]) : m \in StatMotorConstants}

\* a third call whose currents differ from those of the second call, which
\* differ from those of the first: both derivatives and back-EMFs are non-zero
C14_Witness ==
    /\ last = "stat" /\ Len(ins) = 3
    /\ Sample[3] # PrevSample[3] /\ Sample[4] # PrevSample[4]
    /\ PrevSample[3] # ins[1][3] /\ PrevSample[3] # Zero
    /\ prm.fDt = Half
    /\ statObs.fEsAl # Zero /\ statObs.fEsBe # Zero
    /\ statObs.fEsAl # BackEmf(Sample[1], Sample[3], Sample[3])

(***************************************************************************)
(* Properties of the rotor observer's history (checked under SpecRot)      *)
(***************************************************************************)
\* C15: in every state reachable from the zero-initialised rotor observer
\* record by tIMrotObs_calc calls the history fields equal the outputs
\* (fPrevFrAl = fFrAl, fPrevFrBe = fFrBe, fPrevErAl = fErAl, fPrevErBe = fErBe),
\* so the own-axis flux subtracted in a call's back-EMF is the flux the
\* previous call integrated.
C15_HistoryEqualsOutputs ==
    /\ rotObs.fPrevFrAl = rotObs.fFrAl /\ rotObs.fPrevFrBe = rotObs.fFrBe
    /\ rotObs.fPrevErAl = rotObs.fErAl /\ rotObs.fPrevErBe = rotObs.fErBe
    /\ (last = "rot")
       => /\ rotObs.fErAl =
                fSub(fMul(fSub(fMul(Sample[1], prm.fLm), pre.fPrevFrAl),
                          prm.f1divTr),
                     fMul(Sample[3], pre.fPrevFrBe))
          /\ fSub(rotObs.fErBe, fMul(Sample[3], rotObs.fFrAl)) =
                fMul(fSub(fMul(Sample[2], prm.fLm), pre.fPrevFrBe),
                     prm.f1divTr)

\* a third call on a record whose fluxes and back-EMFs are all non-zero and
\* differ from those before the call
C15_Witness ==
    /\ last = "rot" /\ Len(ins) = 3
    /\ pre.fFrAl # Zero /\ pre.fFrBe # Zero
    /\ rotObs.fFrAl # pre.fFrAl /\ rotObs.fFrBe # pre.fFrBe
    /\ rotObs.fErAl # pre.fErAl /\ rotObs.fErBe # pre.fErBe
    /\ rotObs.fErAl # Zero /\ rotObs.fErBe # Zero

(***************************************************************************)
(* The PI integrator under saturation (checked under SpecCtl)              *)
(***************************************************************************)
\* the calls since construction or reset all had the same positive input
ConstantPositiveRun == ConstantRun /\ fGt(ins[1], Zero)

\* C16: tPI_calc limits fOut only, never the integrator: with Kp > 0, Ki > 0,
\* Dt > 0 and a constant positive input, every call (also one whose output is
\* held at fUpOutLim) raises fIout by at least 0.5*Dt*Ki*Kp*fIn, stores it in
\* fIprevOut, and computes fOut as the limited sum of fPout and that unlimited
\* integral.
C16_IntegratorNotLimited ==
    (/\ IsPI /\ last = "calc" /\ ConstantPositiveRun
     /\ fGt(ctl.fKp, Zero) /\ fGt(ctl.fKi, Zero) /\ fGt(ctl.fDtSec, Zero))
    => /\ fGt(ctl.fIout, pre.fIout)
       /\ fLe(fMul(fMul(Half, ctl.fDtSec),
                   fMul(ctl.fKi, fMul(ctl.fKp, ctl.fIn))),
              fSub(ctl.fIout, pre.fIout))
       /\ ctl.fIprevOut = ctl.fIout
       /\ pre.fIprevOut = pre.fIout
       /\ ctl.fOut = Limit(fAdd(ctl.fPout, ctl.fIout), ctl.fUpOutLim,
                           ctl.fLowOutLim)

\* a call whose output is held at fUpOutLim as it was in the call before,
\* while the integral alone is already above the limit and has grown again
C16_Witness ==
    /\ IsPI /\ last = "calc" /\ ConstantPositiveRun /\ Len(ins) >= 2
    /\ fLt(ctl.fLowOutLim, ctl.fUpOutLim)
    /\ ctl.fOut = ctl.fUpOutLim /\ pre.fOut = ctl.fUpOutLim
    /\ fGt(pre.fIout, ctl.fUpOutLim)
    /\ fGt(ctl.fIout, pre.fIout)

====
